---- MODULE Spec2Model ----
(***************************************************************************)
(* Poster generator (src/app/page.tsx) and image cropper                   *)
(* (src/unnamed/part_004, imported as "@/components/image-cropper").       *)
(*                                                                         *)
(* Four specifications share this module:                                  *)
(*   SpecWrap   - wrapText applied to bounded inputs                       *)
(*   SpecPoster - PosterPage: record edits and drawPoster render passes    *)
(*   SpecRender - PosterPage: edits made while a render pass is waiting    *)
(*   SpecCrop   - ImageCropper: one crop session                           *)
(*                                                                         *)
(* Text is a sequence of one-character strings (a JavaScript string        *)
(* indexed by para[i]); "\n" is the paragraph break.                       *)
(***************************************************************************)
EXTENDS Integers, Sequences, FiniteSets, TLC

VARIABLES
    wIn,        \* wrapText call under test: [text, maxWidth, lineHeight]
    wPc,        \* "ready" before the call, "returned" after it
    wOut,       \* its return value {lines, height}
    posterData, \* PosterPage state: the poster record
    passes,     \* drawPoster calls suspended at `await Promise.all`
    nextPass,   \* number of drawPoster calls issued so far
    canvas,     \* what the last drawPoster call to draw left on the canvas
    edits,      \* number of user operations so far
    failures,   \* number of image loads that have failed so far
    props,      \* ImageCropper: container rect, aspectRatio, source image size
    imgLoaded,  \* ImageCropper state imgLoaded (imgRef is set with it)
    viewW, viewH, cropW, cropH,
    scale, offsetX, offsetY,
    isDragging, dragStart, offsetStart,
    initialScaleRef,
    session,    \* "open", or how the session ended: "confirmed", "cancelled"
    emitted,    \* the rasters handed to onConfirm, in order
    zooms,      \* number of wheel and slider inputs so far
    drags,      \* number of pointer-downs so far
    pressedConfirm, \* TRUE when the last event handled was a Confirm press
    reading,    \* FileReaders started by handleImageUpload, not yet loaded
    cropImage,  \* PosterPage state: source shown in the crop dialog, or Null
    cropTarget, \* PosterPage state: field the crop dialog is for, or Null
    originalImages, \* PosterPage state: uncropped upload per illustration
    fileNames,  \* PosterPage state: file name per illustration
    history,    \* PosterPage state: history entries, first is newest
    nextId      \* number of history ids issued so far

wrapVars == <<wIn, wPc, wOut>>

pageVars == <<reading, cropImage, cropTarget, originalImages, fileNames>>

histVars == <<history, nextId>>

posterVars == <<posterData, passes, nextPass, canvas, edits, failures,
                pageVars, histVars>>

cropVars == <<props, imgLoaded, viewW, viewH, cropW, cropH, scale, offsetX,
              offsetY, isDragging, dragStart, offsetStart, initialScaleRef,
              session, emitted, zooms, drags, pressedConfirm>>

vars == <<wIn, wPc, wOut, posterData, passes, nextPass, canvas, edits,
          failures, props, imgLoaded, viewW, viewH, cropW, cropH, scale,
          offsetX, offsetY, isDragging, dragStart, offsetStart,
          initialScaleRef, session, emitted, zooms, drags, pressedConfirm,
          reading, cropImage, cropTarget, originalImages, fileNames,
          history, nextId>>

(***************************************************************************)
(* Generic helpers                                                         *)
(***************************************************************************)
Min(a, b) == IF a <= b THEN a ELSE b

RECURSIVE SeqsUpTo(_, _)
\* every sequence over S of length <= n
SeqsUpTo(S, n) ==
    IF n = 0 THEN {<<>>}
    ELSE LET shorter == SeqsUpTo(S, n - 1)
         IN  shorter \cup {Append(s, c) : s \in shorter, c \in S}

Rep(c, n) == [i \in 1..n |-> c]

(***************************************************************************)
(* Exact arithmetic for the cropper's numbers: a number is a fraction      *)
(* <<n, d>> in lowest terms with d > 0.                                    *)
(***************************************************************************)
RECURSIVE GCD(_, _)
GCD(a, b) == IF b = 0 THEN a ELSE GCD(b, a % b)

Abs(a) == IF a < 0 THEN -a ELSE a

Frac(n, d) ==
    LET g  == GCD(Abs(n), Abs(d))
        sg == IF d < 0 THEN -1 ELSE 1
    IN  <<sg * (n \div g), sg * (d \div g)>>

Num(n) == <<n, 1>>

\* sums are taken over the least common denominator and products are
\* cross-reduced first, which keeps the intermediate integers small
Add(x, y) ==
    LET g == GCD(x[2], y[2])
    IN  Frac(x[1] * (y[2] \div g) + y[1] * (x[2] \div g),
             (x[2] \div g) * y[2])

Sub(x, y) == Add(x, <<-y[1], y[2]>>)

Mul(x, y) ==
    LET g1 == GCD(Abs(x[1]), y[2])
        g2 == GCD(Abs(y[1]), x[2])
    IN  IF x[1] = 0 \/ y[1] = 0 THEN <<0, 1>>
        ELSE <<(x[1] \div g1) * (y[1] \div g2),
               (x[2] \div g2) * (y[2] \div g1)>>

Div(x, y) ==
    Mul(x, IF y[1] < 0 THEN <<-y[2], -y[1]>> ELSE <<y[2], y[1]>>)

Leq(x, y) == Sub(x, y)[1] <= 0

Less(x, y) == Sub(x, y)[1] < 0

MaxOf(x, y) == IF Leq(y, x) THEN x ELSE y

MinOf(x, y) == IF Leq(x, y) THEN x ELSE y

\* Math.round: the nearest integer, halves rounded up
Round(x) == (2 * x[1] + x[2]) \div (2 * x[2])

(***************************************************************************)
(* Text metrics: ctx.measureText(line).width                               *)
(* The width of a line is the sum of its glyph advances; an advance is the *)
(* glyph's width in ems times the font size.                               *)
(***************************************************************************)
NL == "\n"

Ems(c) ==
    CASE c = "a" -> 1
      [] c = "b" -> 2
      [] c = "c" -> 1
      [] c = "d" -> 1
      [] c = "W" -> 4
      [] OTHER   -> 1

RECURSIVE MeasureText(_, _)
MeasureText(font, line) ==
    IF line = <<>> THEN 0
    ELSE font * Ems(Head(line)) + MeasureText(font, Tail(line))

(***************************************************************************)
(* text.split("\n")                                                        *)
(***************************************************************************)
RECURSIVE SplitFrom(_, _, _)
\* cur is the paragraph being collected, acc the paragraphs completed
SplitFrom(text, cur, acc) ==
    IF text = <<>> THEN Append(acc, cur)
    ELSE IF Head(text) = NL
         THEN SplitFrom(Tail(text), <<>>, Append(acc, cur))
         ELSE SplitFrom(Tail(text), Append(cur, Head(text)), acc)

Split(text) == SplitFrom(text, <<>>, <<>>)

(***************************************************************************)
(* wrapText (page.tsx 131-168)                                             *)
(***************************************************************************)
\* the test `metrics.width > maxWidth && currentLine !== ""` of line 150
BreakBeforeMutant(font, currentLine, ch, maxWidth) ==
    MeasureText(font, currentLine) >= maxWidth /\ currentLine # <<>>

BreakBefore(font, currentLine, ch, maxWidth) ==
    MeasureText(font, Append(currentLine, ch)) > maxWidth /\ currentLine # <<>>

\* `if (currentLine) result.push(currentLine)` of lines 157-159
FinishParaMutant(currentLine, result) == result

FinishPara(currentLine, result) ==
    IF currentLine # <<>> THEN Append(result, currentLine) ELSE result

RECURSIVE WrapPara(_, _, _, _, _, _)
\* the inner for loop over para[i], i from 1, and the push that follows it
WrapPara(font, para, i, currentLine, result, maxWidth) ==
    IF i > Len(para)
    THEN FinishPara(currentLine, result)
    ELSE IF BreakBefore(font, currentLine, para[i], maxWidth)
         THEN WrapPara(font, para, i + 1, <<para[i]>>,
                       Append(result, currentLine), maxWidth)
         ELSE WrapPara(font, para, i + 1, Append(currentLine, para[i]),
                       result, maxWidth)

\* what one paragraph appends to result
ParaLinesMutant(font, para, maxWidth) ==
    IF para = <<>> THEN <<>>
    ELSE WrapPara(font, para, 1, <<>>, <<>>, maxWidth)

ParaLines(font, para, maxWidth) ==
    IF para = <<>> THEN << <<>> >>
    ELSE WrapPara(font, para, 1, <<>>, <<>>, maxWidth)

RECURSIVE WrapParas(_, _, _, _)
WrapParas(font, paragraphs, result, maxWidth) ==
    IF paragraphs = <<>> THEN result
    ELSE WrapParas(font, Tail(paragraphs),
                   result \o ParaLines(font, Head(paragraphs), maxWidth),
                   maxWidth)

wrapText(font, text, maxWidth, lineHeight) ==
    LET result == WrapParas(font, Split(text), <<>>, maxWidth)
    IN  [lines |-> result, height |-> Len(result) * lineHeight]

(***************************************************************************)
(* PosterPage (page.tsx): constants                                        *)
(* Lengths are counted in fifths of a pixel, so that the 0.4 x 44 px       *)
(* advance of an empty body line is a whole number.                        *)
(***************************************************************************)
Px(n) == 5 * n

Null == "null"

POSTER_WIDTH == Px(750)
PADDING_X == Px(40)
BOARD_PADDING_X == Px(36)
BOARD_TEXT_WIDTH == POSTER_WIDTH - PADDING_X * 2 - BOARD_PADDING_X * 2

headerHeight == Px(334)
headerBoardGap == Px(6)
boardPaddingTop == Px(36)
boardPaddingBottom == Px(36)
titleFontSize == Px(32)
titleLineHeight == Px(46)
contentFontSize == Px(26)
contentLineHeight == Px(44)
titleContentGap == Px(16)
contentImageGap == Px(24)
imageMaxHeight == Px(300)
commentTitleFontSize == Px(28)
commentTitleLineHeight == Px(42)
commentFontSize == Px(24)
commentLineHeight == Px(40)
commentGap == Px(6)
boardFooterGap == Px(24)
footerHeight == Px(160)

(***************************************************************************)
(* drawPoster: image loading (page.tsx 204-222)                            *)
(***************************************************************************)
ImageKeys == {"logo", "left", "right", "qr"}

\* the source each key is loaded from, Null when no load is issued for it
ImageSource(d, k) ==
    CASE k = "logo"  -> "/logo.png"
      [] k = "left"  -> d.imageLeft
      [] k = "right" -> d.imageRight
      [] k = "qr"    -> d.qrCode

\* imagePromises: one pending load per requested image
IssueLoads(d) ==
    [k \in ImageKeys |-> IF ImageSource(d, k) # Null THEN "pending" ELSE "none"]

\* images[k] after `imagePromises[k].catch(() => null)`
LoadedImages(pass) ==
    [k \in ImageKeys |->
        IF pass.loads[k] = "ok" THEN ImageSource(pass.snap, k) ELSE Null]

AllSettled(pass) == \A k \in ImageKeys : pass.loads[k] # "pending"

(***************************************************************************)
(* drawPoster: height pre-computation (page.tsx 224-286)                   *)
(***************************************************************************)
titleWrapped(d) ==
    wrapText(titleFontSize, d.mainTitle, BOARD_TEXT_WIDTH, titleLineHeight)

contentWrapped(d) ==
    wrapText(contentFontSize, d.content, BOARD_TEXT_WIDTH, contentLineHeight)

commentTitleWrapped(d) ==
    wrapText(commentTitleFontSize, d.teacherName, BOARD_TEXT_WIDTH,
             commentTitleLineHeight)

commentWrapped(d) ==
    wrapText(commentFontSize, d.teacherComment, BOARD_TEXT_WIDTH,
             commentLineHeight)

hasLeft(images) == images["left"] # Null

hasRight(images) == images["right"] # Null

imageAreaHeight(images) ==
    IF hasLeft(images) \/ hasRight(images)
    THEN imageMaxHeight + contentImageGap * 2
    ELSE 0

imageCommentGapMutant(images) == Px(8)

imageCommentGap(images) ==
    IF hasLeft(images) \/ hasRight(images) THEN Px(8) ELSE Px(16)

boardHMutant(d, images) ==
    boardPaddingTop +
    titleWrapped(d).height + titleContentGap +
    contentWrapped(d).height +
    imageAreaHeight(images) +
    imageCommentGap(images) +
    commentTitleWrapped(d).height + commentGap -
    commentWrapped(d).height +
    boardPaddingBottom

boardH(d, images) ==
    boardPaddingTop +
    titleWrapped(d).height + titleContentGap +
    contentWrapped(d).height +
    imageAreaHeight(images) +
    imageCommentGap(images) +
    commentTitleWrapped(d).height + commentGap +
    commentWrapped(d).height +
    boardPaddingBottom

totalHeight(d, images) ==
    headerHeight + headerBoardGap + boardH(d, images) + boardFooterGap
        + footerHeight + Px(20)

(***************************************************************************)
(* drawPoster: the drawing pass and its cursor drawY (page.tsx 338-493)    *)
(***************************************************************************)
boardY == headerHeight + headerBoardGap

\* Step 4: one titleLineHeight per title line, then the divider
AfterTitle(d) ==
    boardY + boardPaddingTop
        + Len(titleWrapped(d).lines) * titleLineHeight
        + Px(4) + titleContentGap

RECURSIVE BodyAdvanceMutant(_)
\* an empty line that advances two full line heights
BodyAdvanceMutant(lines) ==
    IF lines = <<>> THEN 0
    ELSE (IF Head(lines) = <<>>
          THEN contentLineHeight * 2
          ELSE contentLineHeight)
         + BodyAdvanceMutant(Tail(lines))

RECURSIVE BodyAdvance(_)
\* Step 5: an empty line advances 0.4 x contentLineHeight, any other a full one
BodyAdvance(lines) ==
    IF lines = <<>> THEN 0
    ELSE (IF Head(lines) = <<>>
          THEN (contentLineHeight * 4) \div 10
          ELSE contentLineHeight)
         + BodyAdvance(Tail(lines))

AfterBody(d) == AfterTitle(d) + BodyAdvance(contentWrapped(d).lines)

\* Step 6: the advance of drawY over the image row
ImageRowAdvance(images) ==
    IF hasLeft(images) \/ hasRight(images)
    THEN contentImageGap + imageMaxHeight + contentImageGap
    ELSE 0

AfterImages(d, images) == AfterBody(d) + ImageRowAdvance(images)

\* Step 6: geometry of the image row (page.tsx 341-350, 386-404)
boardX == PADDING_X

boardW == POSTER_WIDTH - PADDING_X * 2

drawX == boardX + BOARD_PADDING_X

imgAreaW == boardW - BOARD_PADDING_X * 2

imgAreaX == drawX

circleDiameter == Px(340)

circleBorder == Px(8)

circleRadius == circleDiameter \div 2

\* an overflow larger than the radius
circleOverflowMutant == Px(200)

circleOverflow == Px(80)

circleCXMutant == boardX + boardW + circleOverflow

circleCX == boardX + boardW - circleRadius + circleOverflow

circleCY(rowY) == rowY + imageMaxHeight \div 2

gap == Px(16)

circleVisibleW == circleDiameter - circleOverflow

leftWMutant == imgAreaW - circleVisibleW - gap

leftW == imgAreaW - circleVisibleW - gap + BOARD_PADDING_X

clipR == circleRadius - circleBorder - Px(2)

\* natural size of a loaded image (img.width, img.height)
ImageSize(src) ==
    CASE src = "/pict.png"    -> [width |-> Px(800), height |-> Px(600)]
      [] src = "/pict01.png"  -> [width |-> Px(600), height |-> Px(800)]
      [] src = "/qr-code.png" -> [width |-> Px(300), height |-> Px(300)]
      [] src = "/logo.png"    -> [width |-> Px(400), height |-> Px(100)]
      [] src = "photoA"       -> [width |-> Px(400), height |-> Px(200)]
      [] src = "photoB"       -> [width |-> Px(300), height |-> Px(400)]
      [] src \in {"photoA-4x3-full", "photoB-4x3-full"}
                              -> [width |-> Px(240), height |-> Px(180)]
      [] src \in {"photoA-4x3-detail", "photoB-4x3-detail"}
                              -> [width |-> Px(120), height |-> Px(90)]
      [] src \in {"photoA-3x4-full", "photoB-3x4-full"}
                              -> [width |-> Px(150), height |-> Px(200)]
      [] src \in {"photoA-3x4-detail", "photoB-3x4-detail"}
                              -> [width |-> Px(90), height |-> Px(120)]

\* ctx.drawImage(img, x, y, w, h) destination rectangle; the coordinates of
\* a placement are exact fractions
DestRect(x, y, w, h) == [x |-> x, y |-> y, w |-> w, h |-> h]

\* dual layout, left illustration (407-419): clipped to the rounded slot,
\* scaled by max(leftW / w, imgH / h) and centred on it
LeftPlacement(src, rowY) ==
    LET img == ImageSize(src)
        sc  == MaxOf(Frac(leftW, img.width), Frac(imageMaxHeight, img.height))
        dw  == Mul(Num(img.width), sc)
        dh  == Mul(Num(img.height), sc)
    IN  [image |-> src,
         clip  |-> [shape |-> "roundRect", x |-> Num(imgAreaX),
                    y |-> Num(rowY), w |-> Num(leftW),
                    h |-> Num(imageMaxHeight)],
         dest  |-> DestRect(Add(Num(imgAreaX), Div(Sub(Num(leftW), dw), Num(2))),
                            Add(Num(rowY),
                                Div(Sub(Num(imageMaxHeight), dh), Num(2))),
                            dw, dh)]

\* dual layout, manuscript photo (422-450): a disc of circleRadius, the photo
\* clipped to the circle of clipR, scaled by max(2 clipR / w, 2 clipR / h)
RightPlacement(src, rowY) ==
    LET img == ImageSize(src)
        rs  == MaxOf(Frac(clipR * 2, img.width), Frac(clipR * 2, img.height))
        dw  == Mul(Num(img.width), rs)
        dh  == Mul(Num(img.height), rs)
    IN  [image |-> src,
         clip  |-> [shape |-> "circle", cx |-> Num(circleCX),
                    cy |-> Num(circleCY(rowY)), r |-> Num(clipR),
                    disc |-> Num(circleRadius)],
         dest  |-> DestRect(Sub(Num(circleCX), Div(dw, Num(2))),
                            Sub(Num(circleCY(rowY)), Div(dh, Num(2))),
                            dw, dh)]

\* a single layout that fills the 65% x imgH box
SinglePlacementMutant(src, rowY) ==
    LET img  == ImageSize(src)
        maxW == Mul(Num(imgAreaW), Frac(65, 100))
        sc   == MaxOf(Div(maxW, Num(img.width)),
                      Frac(imageMaxHeight, img.height))
        dw   == Mul(Num(img.width), sc)
        dh   == Mul(Num(img.height), sc)
        cx   == Add(Num(imgAreaX), Div(Sub(Num(imgAreaW), dw), Num(2)))
    IN  [image |-> src,
         clip  |-> [shape |-> "roundRect", x |-> cx, y |-> Num(rowY),
                    w |-> dw, h |-> dh],
         dest  |-> DestRect(cx, Num(rowY), dw, dh)]

\* single layout (452-471): scaled by min(0.65 imgAreaW / w, imgH / h),
\* centred horizontally, top-aligned
SinglePlacement(src, rowY) ==
    LET img  == ImageSize(src)
        maxW == Mul(Num(imgAreaW), Frac(65, 100))
        sc   == MinOf(Div(maxW, Num(img.width)),
                      Frac(imageMaxHeight, img.height))
        dw   == Mul(Num(img.width), sc)
        dh   == Mul(Num(img.height), sc)
        cx   == Add(Num(imgAreaX), Div(Sub(Num(imgAreaW), dw), Num(2)))
    IN  [image |-> src,
         clip  |-> [shape |-> "roundRect", x |-> cx, y |-> Num(rowY),
                    w |-> dw, h |-> dh],
         dest  |-> DestRect(cx, Num(rowY), dw, dh)]

\* nothing drawn for a key
NoPlacement == [image |-> Null]

NoRow == [k \in {"left", "right"} |-> NoPlacement]

\* what Step 6 draws for each illustration key
ImageRow(d, images) ==
    LET rowY == AfterBody(d) + contentImageGap
    IN  IF hasLeft(images) /\ hasRight(images)
        THEN [k \in {"left", "right"} |->
                 IF k = "left" THEN LeftPlacement(images["left"], rowY)
                 ELSE RightPlacement(images["right"], rowY)]
        ELSE IF hasLeft(images)
        THEN [NoRow EXCEPT !["left"] = SinglePlacement(images["left"], rowY)]
        ELSE IF hasRight(images)
        THEN [NoRow EXCEPT !["right"] = SinglePlacement(images["right"], rowY)]
        ELSE NoRow

\* Step 7: y of the first comment-signature line
CommentTitleY(d, images) == AfterImages(d, images) + imageCommentGap(images)

CommentY(d, images) ==
    CommentTitleY(d, images)
        + Len(commentTitleWrapped(d).lines) * commentTitleLineHeight
        + commentGap

\* drawY after the last comment line
AfterComment(d, images) ==
    CommentY(d, images) + Len(commentWrapped(d).lines) * commentLineHeight

footerY(d, images) == boardY + boardH(d, images) + boardFooterGap

(***************************************************************************)
(* drawPoster: header (page.tsx 296-338)                                   *)
(***************************************************************************)
logoY == Px(72)

logoH == Px(100)

infoY == logoY + logoH + Px(20)

labelFontSize == Px(27)

infoX == PADDING_X + Px(8)

infoLineH == Px(42)

\* String.prototype.trim: white space and line terminators at both ends
Whitespace == {" ", NL}

RECURSIVE TrimStart(_)
TrimStart(text) ==
    IF text # <<>> /\ Head(text) \in Whitespace
    THEN TrimStart(Tail(text))
    ELSE text

RECURSIVE TrimEnd(_)
TrimEnd(text) ==
    IF text # <<>> /\ text[Len(text)] \in Whitespace
    THEN TrimEnd(SubSeq(text, 1, Len(text) - 1))
    ELSE text

Trim(text) == TrimEnd(TrimStart(text))

\* the four glyphs of the standalone label of line 334
StandaloneLabel == <<"kan", "tu", "xie", "hua">>

\* a third line chosen by the untrimmed field
HeaderThirdLineMutant(d) ==
    IF d.bookTitle # <<>>
    THEN [label |-> "bookTitle", text |-> d.bookTitle, x |-> infoX,
          y |-> infoY + infoLineH * 2, font |-> labelFontSize,
          bold |-> FALSE]
    ELSE [label |-> "none", text |-> StandaloneLabel, x |-> infoX,
          y |-> infoY + infoLineH * 2 + Px(10), font |-> Px(36),
          bold |-> TRUE]

\* lines 330-336: the book-title line, or the bold 36px label 10px lower
\* when the book title is empty after trim()
HeaderThirdLine(d) ==
    IF Trim(d.bookTitle) # <<>>
    THEN [label |-> "bookTitle", text |-> d.bookTitle, x |-> infoX,
          y |-> infoY + infoLineH * 2, font |-> labelFontSize,
          bold |-> FALSE]
    ELSE [label |-> "none", text |-> StandaloneLabel, x |-> infoX,
          y |-> infoY + infoLineH * 2 + Px(10), font |-> Px(36),
          bold |-> TRUE]

\* Step 2: the logo when it loaded, the three info lines, and the cursor
\* set to headerHeight (338)
Header(d, images) ==
    [logo  |-> images["logo"] # Null,
     lines |-> << [label |-> "readingRoom", text |-> d.readingRoom,
                   x |-> infoX, y |-> infoY, font |-> labelFontSize,
                   bold |-> FALSE],
                  [label |-> "studentInfo", text |-> d.studentInfo,
                   x |-> infoX, y |-> infoY + infoLineH,
                   font |-> labelFontSize, bold |-> FALSE],
                  HeaderThirdLine(d) >>,
     curY  |-> headerHeight]

NoHeader == [logo |-> FALSE, lines |-> <<>>, curY |-> 0]

(***************************************************************************)
(* drawPoster: footer (page.tsx 495-528)                                   *)
(***************************************************************************)
qrSize == Px(110)

qrX == PADDING_X + Px(10)

qrY(d, images) == footerY(d, images)

\* line 505: ctx.drawImage(images["qr"], qrX, qrY, qrSize, qrSize)
QrPlacement(d, images) ==
    IF images["qr"] # Null
    THEN [image |-> images["qr"],
          dest  |-> DestRect(Num(qrX), Num(qrY(d, images)), Num(qrSize),
                             Num(qrSize))]
    ELSE NoPlacement

textRightX == qrX + qrSize + Px(24)

qrBottom(d, images) == qrY(d, images) + qrSize

lineH == Px(32)

\* posterData.phone.split("\n").filter(Boolean)
contactLines(d) == SelectSeq(Split(d.phone), LAMBDA line : line # <<>>)

\* contact lines laid out downwards from the top of the code square
ContactTextMutant(d, images) ==
    LET lines == contactLines(d)
    IN  [i \in 1..Len(lines) |->
            [text |-> lines[i], x |-> textRightX,
             y |-> qrY(d, images) + i * lineH]]

\* lines 524-527 with textBaseline "bottom": the y of each drawn line is its
\* bottom edge; the code's 0-based i is i - 1 here
ContactText(d, images) ==
    LET lines == contactLines(d)
    IN  [i \in 1..Len(lines) |->
            [text |-> lines[i], x |-> textRightX,
             y |-> qrBottom(d, images) - (Len(lines) - i) * lineH]]

(***************************************************************************)
(* SpecPoster: record edits and render passes                              *)
(***************************************************************************)
MaxEdits == 2
MaxFailures == 1

TextShort == <<"a", "b">>

TextBlank == <<"a", NL, NL, "b">>

\* seven glyphs of 4 em: two lines at each of the four font sizes
TextLong == Rep("W", 7)

\* two non-empty lines, as the initial contact text
TextTwoLines == <<"a", NL, "b">>

\* whitespace only
TextSpaces == <<" ", " ">>

\* a word inside whitespace
TextPadded == <<" ", "a", " ">>

\* a blank line between two non-empty lines
TextGap == <<"a", NL, NL, "b">>

\* six non-empty lines
TextSixLines == <<"a", NL, "b", NL, "c", NL, "d", NL, "a", NL, "b">>

FieldValues(field) ==
    CASE field = "mainTitle"      -> {TextShort, TextLong}
      [] field = "bookTitle"      -> {<<>>, TextSpaces, TextShort, TextPadded}
      [] field = "phone"          -> {<<>>, TextTwoLines, TextGap,
                                      <<"a", NL>>, TextSixLines}
      [] field = "content"        -> {<<>>, TextShort, TextBlank, TextLong}
      [] field = "teacherName"    -> {TextShort, TextLong}
      [] field = "teacherComment" -> {TextShort, TextBlank}

TextFields == {"mainTitle", "content", "teacherName", "teacherComment"}

ImageFields == {"imageLeft", "imageRight"}

InitialPosterData ==
    [readingRoom    |-> TextShort,
     studentInfo    |-> TextShort,
     bookTitle      |-> TextShort,
     phone          |-> TextTwoLines,
     footerText     |-> <<>>,
     mainTitle      |-> TextShort,
     content        |-> TextShort,
     teacherName    |-> TextShort,
     teacherComment |-> TextShort,
     imageLeft      |-> "/pict.png",
     imageRight     |-> "/pict01.png",
     qrCode         |-> "/qr-code.png"]

\* useEffect(() => { drawPoster(); }, [drawPoster]): every new posterData
\* starts a drawPoster call, which issues its loads and suspends
StartPass(d) ==
    /\ nextPass' = nextPass + 1
    /\ passes' = passes \cup
                   {[id |-> nextPass + 1, snap |-> d, loads |-> IssueLoads(d)]}

\* what a drawPoster call leaves on the canvas
Painted(id, d, images) ==
    [pass    |-> id,
     snap    |-> d,
     images  |-> images,
     height  |-> totalHeight(d, images),
     header  |-> Header(d, images),
     row     |-> ImageRow(d, images),
     qr      |-> QrPlacement(d, images),
     contact |-> ContactText(d, images)]

BlankCanvas ==
    [pass |-> 0, snap |-> InitialPosterData,
     images |-> [k \in ImageKeys |-> Null], height |-> 0,
     header |-> NoHeader, row |-> NoRow, qr |-> NoPlacement,
     contact |-> <<>>]

\* the page is mounted and the mount effect has started the first call
InitialPasses ==
    {[id |-> 1, snap |-> InitialPosterData,
      loads |-> IssueLoads(InitialPosterData)]}

updateField(field, value) ==
    /\ posterData[field] # value
    /\ posterData' = [posterData EXCEPT ![field] = value]
    /\ StartPass(posterData')
    /\ edits' = edits + 1
    /\ UNCHANGED <<canvas, failures>>
    /\ UNCHANGED <<wrapVars, cropVars, pageVars, histVars>>

handleClearImage(field) ==
    /\ posterData[field] # Null
    /\ posterData' = [posterData EXCEPT ![field] = Null]
    /\ originalImages' = [originalImages EXCEPT ![field] = Null]
    /\ fileNames' = [fileNames EXCEPT ![field] = ""]
    /\ StartPass(posterData')
    /\ edits' = edits + 1
    /\ UNCHANGED <<canvas, failures, reading, cropImage, cropTarget>>
    /\ UNCHANGED <<wrapVars, cropVars, histVars>>

\* img.onload / img.onerror of one load of one suspended call
LoadSettles(pass, k, outcome) ==
    /\ pass.loads[k] = "pending"
    /\ outcome = "failed" => failures < MaxFailures
    /\ failures' = IF outcome = "failed" THEN failures + 1 ELSE failures
    /\ passes' = (passes \ {pass}) \cup
                   {[pass EXCEPT !.loads[k] = outcome]}
    /\ UNCHANGED <<posterData, nextPass, canvas, edits>>
    /\ UNCHANGED <<wrapVars, cropVars, pageVars, histVars>>

\* a continuation that drops its drawing when a newer call has been issued
DrawNewestOnlyMutant(pass) ==
    /\ AllSettled(pass)
    /\ canvas' = IF pass.id = nextPass
                  THEN Painted(pass.id, pass.snap, LoadedImages(pass))
                  ELSE canvas
    /\ passes' = passes \ {pass}
    /\ UNCHANGED <<posterData, nextPass, edits, failures>>
    /\ UNCHANGED <<wrapVars, cropVars, pageVars, histVars>>

\* a continuation that does not wait for its loads
DrawUnjoinedMutant(pass) ==
    /\ canvas' = Painted(pass.id, pass.snap, LoadedImages(pass))
    /\ passes' = passes \ {pass}
    /\ UNCHANGED <<posterData, nextPass, edits, failures>>
    /\ UNCHANGED <<wrapVars, cropVars, pageVars, histVars>>

\* the continuation of drawPoster after `await Promise.all(...)`
Draw(pass) ==
    /\ AllSettled(pass)
    /\ canvas' = Painted(pass.id, pass.snap, LoadedImages(pass))
    /\ passes' = passes \ {pass}
    /\ UNCHANGED <<posterData, nextPass, edits, failures>>
    /\ UNCHANGED <<wrapVars, cropVars, pageVars, histVars>>

\* a user operation is admitted while fewer than maxEdits have happened and
\* fewer than maxInFlight drawPoster calls are suspended
MayEdit(maxEdits, maxInFlight) ==
    edits < maxEdits /\ Cardinality(passes) < maxInFlight

NextPosterWithin(maxEdits, maxInFlight) ==
    \/ /\ MayEdit(maxEdits, maxInFlight)
       /\ \E field \in TextFields :
             \E value \in FieldValues(field) : updateField(field, value)
    \/ /\ MayEdit(maxEdits, maxInFlight)
       /\ \E field \in ImageFields : handleClearImage(field)
    \/ \E pass \in passes : \E k \in ImageKeys :
          \E outcome \in {"ok", "failed"} : LoadSettles(pass, k, outcome)
    \/ \E pass \in passes : Draw(pass)

\* SpecPoster renders one record at a time: the next user operation comes
\* after the drawPoster call of the previous one has drawn
NextPoster == NextPosterWithin(MaxEdits, 1)

\* SpecRender lets the user retitle the poster or clear an illustration while
\* an earlier drawPoster call is still waiting for its images: up to two
\* calls are suspended at once
MaxRenderEdits == 1

NextRender ==
    \/ /\ MayEdit(MaxRenderEdits, 2)
       /\ \E value \in FieldValues("mainTitle") :
             updateField("mainTitle", value)
    \/ /\ MayEdit(MaxRenderEdits, 2)
       /\ \E field \in ImageFields : handleClearImage(field)
    \/ \E pass \in passes : \E k \in ImageKeys :
          \E outcome \in {"ok", "failed"} : LoadSettles(pass, k, outcome)
    \/ \E pass \in passes : Draw(pass)

(***************************************************************************)
(* PosterPage: uploads and the crop dialog (page.tsx 544-590)              *)
(***************************************************************************)
\* useState initial values of lines 101-108
NoOriginals == [f \in ImageFields |-> Null]

NoFileNames == [f \in ImageFields |-> ""]

\* the files a user picks: a landscape and a portrait photo
Files == {"photoA", "photoB"}

FileName(file) == IF file = "photoA" THEN "photoA.jpg" ELSE "photoB.jpg"

\* the rasters ImageCropper can hand to onConfirm for a source and a target:
\* the dialog is opened with aspectRatio 3/4 for imageRight and 4/3
\* otherwise (815), and the user's pan and zoom pick the region
CropOutputs(src, field) ==
    CASE src = "photoA" /\ field = "imageRight"
             -> {"photoA-3x4-full", "photoA-3x4-detail"}
      [] src = "photoA" /\ field # "imageRight"
             -> {"photoA-4x3-full", "photoA-4x3-detail"}
      [] src = "photoB" /\ field = "imageRight"
             -> {"photoB-3x4-full", "photoB-3x4-detail"}
      [] src = "photoB" /\ field # "imageRight"
             -> {"photoB-4x3-full", "photoB-4x3-detail"}
      [] OTHER -> {}

\* the crop dialog is rendered when cropImage && cropTarget (812)
DialogOpen == cropImage # Null /\ cropTarget # Null

\* handleImageUpload up to reader.readAsDataURL(file)
handleImageUpload(field, file) ==
    /\ ~DialogOpen
    /\ [field |-> field, file |-> file] \notin reading
    /\ reading' = reading \cup {[field |-> field, file |-> file]}
    /\ edits' = edits + 1
    /\ UNCHANGED <<posterData, passes, nextPass, canvas, failures, cropImage,
                   cropTarget, originalImages, fileNames>>
    /\ UNCHANGED <<wrapVars, cropVars, histVars>>

\* a reader.onload that writes an illustration into the record at once
ReaderLoadsMutant(r) ==
    /\ r \in reading
    /\ reading' = reading \ {r}
    /\ posterData' = [posterData EXCEPT ![r.field] = r.file]
    /\ StartPass(posterData')
    /\ IF r.field \in ImageFields
       THEN /\ originalImages' = [originalImages EXCEPT ![r.field] = r.file]
            /\ fileNames' = [fileNames EXCEPT ![r.field] = FileName(r.file)]
            /\ cropImage' = r.file
            /\ cropTarget' = r.field
       ELSE UNCHANGED <<cropImage, cropTarget, originalImages, fileNames>>
    /\ UNCHANGED <<canvas, edits, failures>>
    /\ UNCHANGED <<wrapVars, cropVars, histVars>>

\* reader.onload (551-561)
ReaderLoads(r) ==
    /\ r \in reading
    /\ reading' = reading \ {r}
    /\ IF r.field \in ImageFields
       THEN /\ originalImages' = [originalImages EXCEPT ![r.field] = r.file]
            /\ fileNames' = [fileNames EXCEPT ![r.field] = FileName(r.file)]
            /\ cropImage' = r.file
            /\ cropTarget' = r.field
            /\ UNCHANGED <<posterData, passes, nextPass>>
       ELSE /\ posterData' = [posterData EXCEPT ![r.field] = r.file]
            /\ StartPass(posterData')
            /\ UNCHANGED <<cropImage, cropTarget, originalImages, fileNames>>
    /\ UNCHANGED <<canvas, edits, failures>>
    /\ UNCHANGED <<wrapVars, cropVars, histVars>>

handleReEdit(field) ==
    /\ ~DialogOpen
    /\ originalImages[field] # Null
    /\ cropImage' = originalImages[field]
    /\ cropTarget' = field
    /\ edits' = edits + 1
    /\ UNCHANGED <<posterData, passes, nextPass, canvas, failures, reading,
                   originalImages, fileNames>>
    /\ UNCHANGED <<wrapVars, cropVars, histVars>>

\* onConfirm of the crop dialog
handleCropConfirm(croppedBase64) ==
    /\ DialogOpen
    /\ croppedBase64 \in CropOutputs(cropImage, cropTarget)
    /\ posterData' = [posterData EXCEPT ![cropTarget] = croppedBase64]
    /\ StartPass(posterData')
    /\ cropImage' = Null
    /\ cropTarget' = Null
    /\ UNCHANGED <<canvas, edits, failures, reading, originalImages,
                   fileNames>>
    /\ UNCHANGED <<wrapVars, cropVars, histVars>>

\* onCancel of the crop dialog
handleCropCancel ==
    /\ DialogOpen
    /\ cropImage' = Null
    /\ cropTarget' = Null
    /\ UNCHANGED <<posterData, passes, nextPass, canvas, edits, failures,
                   reading, originalImages, fileNames>>
    /\ UNCHANGED <<wrapVars, cropVars, histVars>>

\* SpecBands edits the header's and the footer's inputs: the book title,
\* the contact text and the QR code file
MaxBandEdits == 1

NextBands ==
    \/ /\ MayEdit(MaxBandEdits, 1)
       /\ \E field \in {"bookTitle", "phone"} :
             \E value \in FieldValues(field) : updateField(field, value)
    \/ /\ MayEdit(MaxBandEdits, 1)
       /\ \E file \in Files : handleImageUpload("qrCode", file)
    \/ \E r \in reading : ReaderLoads(r)
    \/ \E pass \in passes : \E k \in ImageKeys :
          \E outcome \in {"ok", "failed"} : LoadSettles(pass, k, outcome)
    \/ \E pass \in passes : Draw(pass)

\* SpecPage replaces, re-crops and clears the two illustrations; every image
\* it draws loads
MaxPageOps == 2

\* the user starts the next operation when the previous one has run its
\* course: the file is read, the dialog is closed and the poster is redrawn
MayOperate ==
    MayEdit(MaxPageOps, 1) /\ reading = {} /\ ~DialogOpen

NextPage ==
    \/ /\ MayOperate
       /\ \E field \in ImageFields :
             \E file \in Files : handleImageUpload(field, file)
    \/ /\ MayOperate
       /\ \E field \in ImageFields : handleReEdit(field)
    \/ /\ MayOperate
       /\ \E field \in ImageFields : handleClearImage(field)
    \/ \E r \in reading : ReaderLoads(r)
    \/ \E croppedBase64 \in CropOutputs(cropImage, cropTarget) :
          handleCropConfirm(croppedBase64)
    \/ handleCropCancel
    \/ \E pass \in passes : \E k \in ImageKeys : LoadSettles(pass, k, "ok")
    \/ \E pass \in passes : Draw(pass)

(***************************************************************************)
(* PosterPage: history (page.tsx 48-51, 617-685)                           *)
(***************************************************************************)
MAX_HISTORY == 20

\* [newItem, ...history].slice(0, MAX_HISTORY)
Prepend(newItem, items) ==
    SubSeq(<<newItem>> \o items, 1, Min(Len(items) + 1, MAX_HISTORY))

\* an addHistoryItem that keeps every entry
handleDownloadMutant ==
    /\ nextId' = nextId + 1
    /\ history' = <<[id |-> nextId + 1, thumbnail |-> canvas.pass,
                     posterData |-> posterData]>> \o history
    /\ UNCHANGED <<posterData, passes, nextPass, canvas, edits, failures,
                   pageVars>>
    /\ UNCHANGED <<wrapVars, cropVars>>

\* handleDownload (664-685): a thumbnail of the canvas goes to
\* addHistoryItem (617-627), which snapshots the record under a fresh id,
\* and saveHistoryToStorage writes the same list to localStorage
handleDownload ==
    /\ nextId' = nextId + 1
    /\ history' = Prepend([id |-> nextId + 1, thumbnail |-> canvas.pass,
                           posterData |-> posterData], history)
    /\ UNCHANGED <<posterData, passes, nextPass, canvas, edits, failures,
                   pageVars>>
    /\ UNCHANGED <<wrapVars, cropVars>>

loadHistoryItem(item) ==
    /\ posterData' = item.posterData
    /\ originalImages' = NoOriginals
    /\ fileNames' = NoFileNames
    /\ StartPass(posterData')
    /\ edits' = edits + 1
    /\ UNCHANGED <<canvas, failures, reading, cropImage, cropTarget>>
    /\ UNCHANGED <<wrapVars, cropVars, histVars>>

deleteHistoryItem(id) ==
    /\ history' = SelectSeq(history, LAMBDA item : item.id # id)
    /\ edits' = edits + 1
    /\ UNCHANGED <<posterData, passes, nextPass, canvas, failures, pageVars,
                   nextId>>
    /\ UNCHANGED <<wrapVars, cropVars>>

clearAllHistory ==
    /\ history' = <<>>
    /\ edits' = edits + 1
    /\ UNCHANGED <<posterData, passes, nextPass, canvas, failures, pageVars,
                   nextId>>
    /\ UNCHANGED <<wrapVars, cropVars>>

\* SpecHistory downloads one poster more than the list can hold, and
\* restores, deletes or clears entries
MaxDownloads == 21
MaxHistoryEdits == 1

HistoryItems == {history[i] : i \in 1..Len(history)}

NextHistory ==
    \/ nextId < MaxDownloads /\ handleDownload
    \/ /\ edits < MaxHistoryEdits
       /\ \E item \in HistoryItems : loadHistoryItem(item)
    \/ /\ edits < MaxHistoryEdits
       /\ \E item \in HistoryItems : deleteHistoryItem(item.id)
    \/ /\ edits < MaxHistoryEdits
       /\ history # <<>>
       /\ clearAllHistory

(***************************************************************************)
(* ImageCropper (part_004)                                                 *)
(***************************************************************************)
\* useEffect of lines 76-106, run when the image has loaded
ViewportW(rect) == Min(rect.width - 40, 800)

ViewportH(rect) == Min(rect.height - 40, 600)

maxCropW(rect) == Mul(Num(ViewportW(rect)), Frac(3, 4))

maxCropH(rect) == Mul(Num(ViewportH(rect)), Frac(3, 4))

\* <<cw, ch>>: the largest window of the aspect ratio inside 75% of the view
CropWindow(rect, aspectRatio) ==
    LET cw == maxCropW(rect)
        ch == Div(cw, aspectRatio)
    IN  IF Less(maxCropH(rect), ch)
        THEN <<Mul(maxCropH(rect), aspectRatio), maxCropH(rect)>>
        ELSE <<cw, ch>>

scaleToFit(rect, aspectRatio, img) ==
    LET win == CropWindow(rect, aspectRatio)
    IN  MaxOf(Div(win[1], Num(img.width)), Div(win[2], Num(img.height)))

\* the offset that centres the image, scaled by s, along a view of size v
Centred(v, size, s) == Div(Sub(Num(v), Mul(Num(size), s)), Num(2))

minScale == Mul(initialScaleRef, Frac(3, 10))

maxScale == Mul(initialScaleRef, Num(5))

minSlider == Round(Mul(initialScaleRef, Num(30)))

maxSlider == Round(Mul(initialScaleRef, Num(500)))

cropX == Div(Sub(Num(viewW), Num(cropW)), Num(2))

cropY == Div(Sub(Num(viewH), Num(cropH)), Num(2))

(***************************************************************************)
(* SpecCrop: one crop session                                              *)
(***************************************************************************)
MaxZooms == 2
MaxDrags == 1

Rects == {[width |-> 840, height |-> 640], [width |-> 740, height |-> 540]}

AspectRatios == {Frac(4, 3), Frac(3, 4)}

\* the last one is a single-pixel image
SourceImages ==
    {[width |-> 600, height |-> 450],
     [width |-> 300, height |-> 500],
     [width |-> 1200, height |-> 600],
     [width |-> 1, height |-> 1]}

Pointers == {[x |-> 10, y |-> 10], [x |-> 40, y |-> -25]}

\* the slider positions tried: both ends of the range and the whole values
\* that divide it into SliderStopCount parts
SliderStopCount == 4

SliderStops ==
    {minSlider + (i * (maxSlider - minSlider)) \div SliderStopCount :
        i \in 0..SliderStopCount}

\* img.onload (62-70) followed by the effect of lines 76-106
ImageLoads ==
    /\ session = "open"
    /\ ~imgLoaded
    /\ imgLoaded' = TRUE
    /\ LET vw  == ViewportW(props.rect)
           vh  == ViewportH(props.rect)
           win == CropWindow(props.rect, props.aspectRatio)
           fit == scaleToFit(props.rect, props.aspectRatio, props.img)
       IN  /\ viewW' = vw
           /\ viewH' = vh
           /\ cropW' = Round(win[1])
           /\ cropH' = Round(win[2])
           /\ initialScaleRef' = fit
           /\ scale' = fit
           /\ offsetX' = Centred(vw, props.img.width, fit)
           /\ offsetY' = Centred(vh, props.img.height, fit)
    /\ UNCHANGED <<props, isDragging, dragStart, offsetStart, session,
                   emitted, zooms, drags>>
    /\ pressedConfirm' = FALSE
    /\ UNCHANGED <<wrapVars, posterVars>>

\* the canvas, and with it the pointer and wheel handlers, exists once
\* imgLoaded is true (276-288)
handlePointerDown(e) ==
    /\ session = "open"
    /\ imgLoaded
    /\ isDragging' = TRUE
    /\ dragStart' = [x |-> e.x, y |-> e.y]
    /\ offsetStart' = [x |-> offsetX, y |-> offsetY]
    /\ drags' = drags + 1
    /\ UNCHANGED <<props, imgLoaded, viewW, viewH, cropW, cropH, scale,
                   offsetX, offsetY, initialScaleRef, session, emitted, zooms>>
    /\ pressedConfirm' = FALSE
    /\ UNCHANGED <<wrapVars, posterVars>>

\* a pointer-move that pans whether or not a drag is in progress
handlePointerMoveMutant(e) ==
    /\ session = "open"
    /\ imgLoaded
    /\ offsetX' = Add(offsetStart.x, Num(e.x - dragStart.x))
    /\ offsetY' = Add(offsetStart.y, Num(e.y - dragStart.y))
    /\ UNCHANGED <<props, imgLoaded, viewW, viewH, cropW, cropH, scale,
                   isDragging, dragStart, offsetStart, initialScaleRef,
                   session, emitted, zooms, drags>>
    /\ pressedConfirm' = FALSE
    /\ UNCHANGED <<wrapVars, posterVars>>

handlePointerMove(e) ==
    /\ session = "open"
    /\ imgLoaded
    /\ IF ~isDragging
       THEN UNCHANGED <<offsetX, offsetY>>
       ELSE /\ offsetX' = Add(offsetStart.x, Num(e.x - dragStart.x))
            /\ offsetY' = Add(offsetStart.y, Num(e.y - dragStart.y))
    /\ UNCHANGED <<props, imgLoaded, viewW, viewH, cropW, cropH, scale,
                   isDragging, dragStart, offsetStart, initialScaleRef,
                   session, emitted, zooms, drags>>
    /\ pressedConfirm' = FALSE
    /\ UNCHANGED <<wrapVars, posterVars>>

handlePointerUp ==
    /\ session = "open"
    /\ imgLoaded
    /\ isDragging' = FALSE
    /\ UNCHANGED <<props, imgLoaded, viewW, viewH, cropW, cropH, scale,
                   offsetX, offsetY, dragStart, offsetStart, initialScaleRef,
                   session, emitted, zooms, drags>>
    /\ pressedConfirm' = FALSE
    /\ UNCHANGED <<wrapVars, posterVars>>

\* a wheel tick that zooms about the viewport centre, moving the offsets
handleWheelMutant(deltaYPositive) ==
    /\ session = "open"
    /\ imgLoaded
    /\ LET delta == IF deltaYPositive THEN Frac(-3, 100) ELSE Frac(3, 100)
       IN  scale' = MinOf(maxScale, MaxOf(minScale, Add(scale, delta)))
    /\ offsetX' = Centred(viewW, props.img.width, scale')
    /\ offsetY' = Centred(viewH, props.img.height, scale')
    /\ zooms' = zooms + 1
    /\ UNCHANGED <<props, imgLoaded, viewW, viewH, cropW, cropH,
                   isDragging, dragStart, offsetStart,
                   initialScaleRef, session, emitted, drags>>
    /\ pressedConfirm' = FALSE
    /\ UNCHANGED <<wrapVars, posterVars>>

\* deltaY > 0 zooms out by 0.03, any other tick zooms in by 0.03
handleWheel(deltaYPositive) ==
    /\ session = "open"
    /\ imgLoaded
    /\ LET delta == IF deltaYPositive THEN Frac(-3, 100) ELSE Frac(3, 100)
       IN  scale' = MinOf(maxScale, MaxOf(minScale, Add(scale, delta)))
    /\ zooms' = zooms + 1
    /\ UNCHANGED <<props, imgLoaded, viewW, viewH, cropW, cropH, offsetX,
                   offsetY, isDragging, dragStart, offsetStart,
                   initialScaleRef, session, emitted, drags>>
    /\ pressedConfirm' = FALSE
    /\ UNCHANGED <<wrapVars, posterVars>>

\* the range input (300-307) delivers a whole value between its min and max;
\* it is rendered before the image has loaded as well
handleSliderChange(value) ==
    /\ session = "open"
    /\ value \in minSlider..maxSlider
    /\ value # Round(Mul(scale, Num(100)))
    /\ scale' = Frac(value, 100)
    /\ zooms' = zooms + 1
    /\ UNCHANGED <<props, imgLoaded, viewW, viewH, cropW, cropH, offsetX,
                   offsetY, isDragging, dragStart, offsetStart,
                   initialScaleRef, session, emitted, drags>>
    /\ pressedConfirm' = FALSE
    /\ UNCHANGED <<wrapVars, posterVars>>

\* draw (131): source pixel x is shown at x * scale + offset
Forward(x, s, o) == Add(Mul(x, s), o)

\* a source rectangle obtained by multiplying by scale
CroppedRasterMutant ==
    LET srcW == Mul(Num(cropW), scale)
        srcH == Mul(Num(cropH), scale)
    IN  [srcX |-> Mul(Sub(cropX, offsetX), scale),
         srcY |-> Mul(Sub(cropY, offsetY), scale),
         srcW |-> srcW,
         srcH |-> srcH,
         outW |-> Round(srcW),
         outH |-> Round(srcH)]

\* the raster handleConfirm draws: source rectangle and output size
CroppedRaster ==
    LET srcW == Div(Num(cropW), scale)
        srcH == Div(Num(cropH), scale)
    IN  [srcX |-> Div(Sub(cropX, offsetX), scale),
         srcY |-> Div(Sub(cropY, offsetY), scale),
         srcW |-> srcW,
         srcH |-> srcH,
         outW |-> Round(srcW),
         outH |-> Round(srcH)]

\* a Confirm without the early return
handleConfirmMutant ==
    /\ session = "open"
    /\ emitted' = Append(emitted, CroppedRaster)
    /\ session' = "confirmed"
    /\ UNCHANGED <<props, imgLoaded, viewW, viewH, cropW, cropH, scale,
                   offsetX, offsetY, isDragging, dragStart, offsetStart,
                   initialScaleRef, zooms, drags>>
    /\ pressedConfirm' = TRUE
    /\ UNCHANGED <<wrapVars, posterVars>>

\* handleConfirm returns early while imgRef is unset; otherwise it emits the
\* raster and the page's handleCropConfirm unmounts the cropper
handleConfirm ==
    /\ session = "open"
    /\ IF ~imgLoaded
       THEN UNCHANGED <<session, emitted>>
       ELSE /\ emitted' = Append(emitted, CroppedRaster)
            /\ session' = "confirmed"
    /\ UNCHANGED <<props, imgLoaded, viewW, viewH, cropW, cropH, scale,
                   offsetX, offsetY, isDragging, dragStart, offsetStart,
                   initialScaleRef, zooms, drags>>
    /\ pressedConfirm' = TRUE
    /\ UNCHANGED <<wrapVars, posterVars>>

\* onCancel: the page's handleCropCancel unmounts the cropper
handleCancel ==
    /\ session = "open"
    /\ session' = "cancelled"
    /\ UNCHANGED <<props, imgLoaded, viewW, viewH, cropW, cropH, scale,
                   offsetX, offsetY, isDragging, dragStart, offsetStart,
                   initialScaleRef, emitted, zooms, drags>>
    /\ pressedConfirm' = FALSE
    /\ UNCHANGED <<wrapVars, posterVars>>

NextCrop ==
    \/ ImageLoads
    \/ drags < MaxDrags /\ \E e \in Pointers : handlePointerDown(e)
    \/ \E e \in Pointers : handlePointerMove(e)
    \/ handlePointerUp
    \/ zooms < MaxZooms /\ \E up \in BOOLEAN : handleWheel(up)
    \/ zooms < MaxZooms /\ \E value \in SliderStops :
                              handleSliderChange(value)
    \/ handleConfirm
    \/ handleCancel

(***************************************************************************)
(* SpecWrap: wrapText on bounded inputs                                    *)
(***************************************************************************)
MaxTextLen == 4
MaxWrapWidth == 3

WrapFont == 1

WrapAlphabet == {"a", "b", "W", NL}

ExampleText == <<"a", "b", NL, NL, "c", "d">>

ExampleInput == [text |-> ExampleText, maxWidth |-> 1000, lineHeight |-> 10]

WrapInputs ==
    [text : SeqsUpTo(WrapAlphabet, MaxTextLen),
     maxWidth : 1..MaxWrapWidth,
     lineHeight : {10, 44}]
    \cup {ExampleInput}

NoLines == [lines |-> <<>>, height |-> 0]

DefaultProps ==
    [rect |-> [width |-> 840, height |-> 640], aspectRatio |-> Frac(4, 3),
     img |-> [width |-> 600, height |-> 450]]

Origin == [x |-> 0, y |-> 0]

InitWrap ==
    /\ wIn \in WrapInputs /\ wPc = "ready" /\ wOut = NoLines
    /\ posterData = InitialPosterData /\ nextPass = 1
    /\ passes = InitialPasses /\ canvas = BlankCanvas
    /\ edits = 0 /\ failures = 0
    /\ props = DefaultProps /\ imgLoaded = FALSE
    /\ viewW = 700 /\ viewH = 500 /\ cropW = 400 /\ cropH = 300
    /\ scale = Num(1) /\ offsetX = Num(0) /\ offsetY = Num(0)
    /\ isDragging = FALSE /\ dragStart = Origin
    /\ offsetStart = [x |-> Num(0), y |-> Num(0)]
    /\ initialScaleRef = Num(1)
    /\ session = "open" /\ emitted = <<>> /\ zooms = 0 /\ drags = 0
    /\ pressedConfirm = FALSE
    /\ reading = {} /\ cropImage = Null /\ cropTarget = Null
    /\ originalImages = NoOriginals /\ fileNames = NoFileNames
    /\ history = <<>> /\ nextId = 0

\* PosterPage after mount (page.tsx 76-125, 536-538)
InitPoster ==
    /\ wIn = ExampleInput /\ wPc = "ready" /\ wOut = NoLines
    /\ posterData = InitialPosterData /\ nextPass = 1
    /\ passes = InitialPasses /\ canvas = BlankCanvas
    /\ edits = 0 /\ failures = 0
    /\ props = DefaultProps /\ imgLoaded = FALSE
    /\ viewW = 700 /\ viewH = 500 /\ cropW = 400 /\ cropH = 300
    /\ scale = Num(1) /\ offsetX = Num(0) /\ offsetY = Num(0)
    /\ isDragging = FALSE /\ dragStart = Origin
    /\ offsetStart = [x |-> Num(0), y |-> Num(0)]
    /\ initialScaleRef = Num(1)
    /\ session = "open" /\ emitted = <<>> /\ zooms = 0 /\ drags = 0
    /\ pressedConfirm = FALSE
    /\ reading = {} /\ cropImage = Null /\ cropTarget = Null
    /\ originalImages = NoOriginals /\ fileNames = NoFileNames
    /\ history = <<>> /\ nextId = 0

\* ImageCropper after construction (part_004 30-56), for each session the
\* page can open
InitCrop ==
    /\ wIn = ExampleInput /\ wPc = "ready" /\ wOut = NoLines
    /\ posterData = InitialPosterData /\ nextPass = 1
    /\ passes = InitialPasses /\ canvas = BlankCanvas
    /\ edits = 0 /\ failures = 0
    /\ props \in [rect : Rects, aspectRatio : AspectRatios, img : SourceImages]
    /\ imgLoaded = FALSE
    /\ viewW = 700 /\ viewH = 500 /\ cropW = 400 /\ cropH = 300
    /\ scale = Num(1) /\ offsetX = Num(0) /\ offsetY = Num(0)
    /\ isDragging = FALSE /\ dragStart = Origin
    /\ offsetStart = [x |-> Num(0), y |-> Num(0)]
    /\ initialScaleRef = Num(1)
    /\ session = "open" /\ emitted = <<>> /\ zooms = 0 /\ drags = 0
    /\ pressedConfirm = FALSE
    /\ reading = {} /\ cropImage = Null /\ cropTarget = Null
    /\ originalImages = NoOriginals /\ fileNames = NoFileNames
    /\ history = <<>> /\ nextId = 0

CallWrapText ==
    /\ wPc = "ready"
    /\ wOut' = wrapText(WrapFont, wIn.text, wIn.maxWidth, wIn.lineHeight)
    /\ wPc' = "returned"
    /\ UNCHANGED wIn
    /\ UNCHANGED <<posterVars, cropVars>>

NextWrap == CallWrapText

(***************************************************************************)
(* Specifications                                                          *)
(***************************************************************************)
SpecWrap == InitWrap /\ [][NextWrap]_vars

SpecPoster == InitPoster /\ [][NextPoster]_vars

SpecRender == InitPoster /\ [][NextRender]_vars

SpecCrop == InitCrop /\ [][NextCrop]_vars

SpecBands == InitPoster /\ [][NextBands]_vars

SpecPage == InitPoster /\ [][NextPage]_vars

SpecHistory == InitPoster /\ [][NextHistory]_vars

(***************************************************************************)
(* Properties of wrapText                                                  *)
(***************************************************************************)
RECURSIVE Concat(_)
Concat(lines) ==
    IF lines = <<>> THEN <<>> ELSE Head(lines) \o Concat(Tail(lines))

IsBreak(c) == c = NL

NotBreak(c) == c # NL

Breaks(text) == Cardinality({i \in 1..Len(text) : IsBreak(text[i])})

\* positions after which an empty paragraph sits: the text's start or a
\* break, directly followed by a break or the text's end
EmptyParagraphs(text) ==
    Cardinality({i \in 0..Len(text) :
        /\ (i = 0 \/ IsBreak(text[i]))
        /\ (i = Len(text) \/ IsBreak(text[i + 1]))})

EmptyLines(lines) == Cardinality({i \in 1..Len(lines) : lines[i] = <<>>})

WrapWidth(line) == MeasureText(WrapFont, line)

WrapHasWrapped == Len(wOut.lines) > Breaks(wIn.text) + 1

\* C1: every output line of more than one character measures at most
\* maxWidth; a line that exceeds maxWidth is a single character that is
\* itself wider than maxWidth.
C1_LinesFit ==
    wPc = "returned" =>
        \A i \in 1..Len(wOut.lines) :
            LET line == wOut.lines[i]
            IN  /\ Len(line) > 1 => WrapWidth(line) <= wIn.maxWidth
                /\ WrapWidth(line) > wIn.maxWidth =>
                       Len(line) = 1 /\ WrapWidth(<<line[1]>>) > wIn.maxWidth

C1_Witness ==
    /\ wPc = "returned"
    /\ WrapHasWrapped
    /\ \E i \in 1..Len(wOut.lines) :
           Len(wOut.lines[i]) > 1 /\ WrapWidth(wOut.lines[i]) = wIn.maxWidth
    /\ \E i \in 1..Len(wOut.lines) : WrapWidth(wOut.lines[i]) > wIn.maxWidth

NeverForcesBreak == WrapWidth(SelectSeq(wIn.text, NotBreak)) <= wIn.maxWidth

\* C2: every empty paragraph yields exactly one empty line (and nothing else
\* yields one); when the width forces no break a text with k breaks yields
\* k + 1 lines and height (k + 1) * lineHeight; "ab\n\ncd" at lineHeight 10
\* yields ["ab", "", "cd"] and height 30.
C2_EmptyParagraphs ==
    wPc = "returned" =>
        /\ EmptyLines(wOut.lines) = EmptyParagraphs(wIn.text)
        /\ NeverForcesBreak =>
               /\ Len(wOut.lines) = Breaks(wIn.text) + 1
               /\ wOut.height = (Breaks(wIn.text) + 1) * wIn.lineHeight
        /\ wIn = ExampleInput =>
               wOut = [lines |-> << <<"a", "b">>, <<>>, <<"c", "d">> >>,
                       height |-> 30]

C2_Witness ==
    /\ wPc = "returned"
    /\ wIn.text = <<NL, "a", NL, NL>>
    /\ NeverForcesBreak
    /\ wOut.lines = << <<>>, <<"a">>, <<>>, <<>> >>

\* C3: no character is dropped, duplicated or reordered: the lines of each
\* paragraph concatenate to the paragraph, the whole output concatenates to
\* the text without its breaks, and a character wider than maxWidth is
\* alone on its line.
C3_CharactersPreserved ==
    wPc = "returned" =>
        /\ Concat(wOut.lines) = SelectSeq(wIn.text, NotBreak)
        /\ \A k \in 1..Len(Split(wIn.text)) :
               Concat(ParaLines(WrapFont, Split(wIn.text)[k], wIn.maxWidth))
                   = Split(wIn.text)[k]
        /\ \A i \in 1..Len(wOut.lines) :
               \A j \in 1..Len(wOut.lines[i]) :
                   WrapWidth(<<wOut.lines[i][j]>>) > wIn.maxWidth
                       => Len(wOut.lines[i]) = 1

C3_Witness ==
    /\ wPc = "returned"
    /\ wIn.text = <<"a", "W", "a", "a">>
    /\ wIn.maxWidth = 2
    /\ wOut.lines = << <<"a">>, <<"W">>, <<"a", "a">> >>

(***************************************************************************)
(* Properties of drawPoster's layout                                       *)
(***************************************************************************)
Drawn == canvas.pass > 0

Requested(d, k) == ImageSource(d, k) # Null

FullImageRow == imageMaxHeight + contentImageGap * 2

\* the images a pass would hold had every load it issued succeeded
AllLoaded(d) == [k \in ImageKeys |-> ImageSource(d, k)]

\* C4: an illustration that is requested (non-null in the record) keeps the
\* image row at imageHeight + 2 x gap even when its load fails, and the
\* canvas is as high as if the load had succeeded.
C4_RowHeightFromPresenceFlag ==
    Drawn /\ (Requested(canvas.snap, "left") \/ Requested(canvas.snap, "right"))
        => /\ imageAreaHeight(canvas.images) = FullImageRow
           /\ canvas.height = totalHeight(canvas.snap, AllLoaded(canvas.snap))

\* C6: the panel height is the top padding plus every advance of the cursor
\* plus the bottom padding: after the last comment line exactly
\* boardPaddingBottom remains above the panel's bottom edge.
C6_PanelHeightIsCursorSum ==
    Drawn =>
        boardY + boardH(canvas.snap, canvas.images)
            - AfterComment(canvas.snap, canvas.images) = boardPaddingBottom

\* C7: both illustrations present and loaded: the image row is
\* imageHeight + 2 x gap; neither slot populated: 0; exactly one slot
\* populated: imageHeight + 2 x gap.
C7_ImageRowHeight ==
    Drawn =>
        LET d    == canvas.snap
            rowH == imageAreaHeight(canvas.images)
        IN  /\ (hasLeft(canvas.images) /\ hasRight(canvas.images))
                   => (rowH = FullImageRow /\ rowH # 0)
            /\ (~Requested(d, "left") /\ ~Requested(d, "right")) => rowH = 0
            /\ (Requested(d, "left") # Requested(d, "right"))
                   => rowH = FullImageRow

NoIllustrations ==
    Drawn /\ ~Requested(canvas.snap, "left") /\ ~Requested(canvas.snap, "right")

\* C8 as stated: with no illustration the first comment-signature line is
\* drawn at the y where the body block's cursor ended.
C8_CommentImmediatelyFollows ==
    NoIllustrations =>
        CommentTitleY(canvas.snap, canvas.images) = AfterBody(canvas.snap)

\* C8 as amended: with no illustration no image row is inserted and the
\* first comment-signature line is drawn exactly 16 px below the y where
\* the body block's cursor ended.
C8_CommentFollowsAfterGap ==
    NoIllustrations =>
        /\ ImageRowAdvance(canvas.images) = 0
        /\ CommentTitleY(canvas.snap, canvas.images)
               = AfterBody(canvas.snap) + Px(16)

C8_Witness ==
    /\ NoIllustrations
    /\ canvas.pass = 3
    /\ CommentTitleY(canvas.snap, canvas.images) > AfterBody(canvas.snap)

Wrapped(field, d) ==
    CASE field = "mainTitle"      -> titleWrapped(d)
      [] field = "content"        -> contentWrapped(d)
      [] field = "teacherName"    -> commentTitleWrapped(d)
      [] field = "teacherComment" -> commentWrapped(d)

LineCount(field, d) == Len(Wrapped(field, d).lines)

\* the canvas right after a call has drawn it (SpecPoster suspends one call
\* at a time, so every canvas is seen in such a state)
JustDrawn == Drawn /\ passes = {}

\* C9: replacing one text field by a text of at least as many wrapped lines,
\* everything else and the loaded images fixed, never lowers the canvas
\* height; and no component height is negative.
C9_HeightMonotone ==
    JustDrawn =>
        /\ \A field \in TextFields : \A value \in FieldValues(field) :
              LET grown == [canvas.snap EXCEPT ![field] = value]
              IN  LineCount(field, grown) >= LineCount(field, canvas.snap)
                      => totalHeight(grown, canvas.images) >= canvas.height
        /\ \A field \in TextFields : Wrapped(field, canvas.snap).height >= 0
        /\ imageAreaHeight(canvas.images) >= 0
        /\ imageCommentGap(canvas.images) >= 0
        /\ boardH(canvas.snap, canvas.images) >= 0
        /\ canvas.height >= 0

C9_Witness ==
    /\ JustDrawn
    /\ canvas.pass = 2
    /\ LineCount("teacherComment", canvas.snap)
           > LineCount("teacherComment", InitialPosterData)
    /\ canvas.height > totalHeight(InitialPosterData, canvas.images)

(***************************************************************************)
(* Properties of the crop session                                          *)
(***************************************************************************)
\* C5: in every state of a crop session, whatever wheel ticks and slider
\* inputs came before, 0.3 x initialScale <= scale <= 5 x initialScale.
C5_ScaleClamped == Leq(minScale, scale) /\ Leq(scale, maxScale)

Interactive == session = "open" /\ imgLoaded /\ zooms = 0 /\ drags = 0

ScaledW == Mul(Num(props.img.width), scale)

ScaledH == Mul(Num(props.img.height), scale)

\* the scaled image reaches every side of the crop window
CoversCropWindow ==
    /\ Leq(offsetX, cropX)
    /\ Leq(Add(cropX, Num(cropW)), Add(offsetX, ScaledW))
    /\ Leq(offsetY, cropY)
    /\ Leq(Add(cropY, Num(cropH)), Add(offsetY, ScaledH))

\* C10: when the session becomes interactive it is Idle, scale is
\* initialScale = max(cropW / imageW, cropH / imageH) of the stored crop
\* window, the offsets centre the scaled image in the viewport and the
\* image covers the crop window on every side.
C10_InitialCoverFit ==
    Interactive =>
        /\ ~isDragging
        /\ scale = initialScaleRef
        /\ initialScaleRef =
               MaxOf(Div(Num(cropW), Num(props.img.width)),
                     Div(Num(cropH), Num(props.img.height)))
        /\ offsetX = Centred(viewW, props.img.width, scale)
        /\ offsetY = Centred(viewH, props.img.height, scale)
        /\ CoversCropWindow

\* |x - y| <= 1
Within1(x, y) == Leq(Sub(x, y), Num(1)) /\ Leq(Sub(y, x), Num(1))

\* C11: Confirm maps the centred crop window to source pixels by
\* srcX = (cropX - offsetX) / scale, srcY = (cropY - offsetY) / scale,
\* srcW = cropW / scale, srcH = cropH / scale; the forward transform
\* x * scale + offset takes that source rectangle back to the crop window
\* within one pixel; the output raster is round(srcW) x round(srcH).
C11_ConfirmTransform ==
    \A i \in DOMAIN emitted :
        LET r == emitted[i]
        IN  /\ r.srcX = Div(Sub(cropX, offsetX), scale)
            /\ r.srcY = Div(Sub(cropY, offsetY), scale)
            /\ r.srcW = Div(Num(cropW), scale)
            /\ r.srcH = Div(Num(cropH), scale)
            /\ Within1(Forward(r.srcX, scale, offsetX), cropX)
            /\ Within1(Forward(r.srcY, scale, offsetY), cropY)
            /\ Within1(Forward(Add(r.srcX, r.srcW), scale, offsetX),
                       Add(cropX, Num(cropW)))
            /\ Within1(Forward(Add(r.srcY, r.srcH), scale, offsetY),
                       Add(cropY, Num(cropH)))
            /\ r.outW = Round(r.srcW)
            /\ r.outH = Round(r.srcH)

\* a confirm after a zoom and a pan
C11_Witness ==
    /\ session = "confirmed"
    /\ Len(emitted) = 1
    /\ scale # initialScaleRef
    /\ scale # Num(1)
    /\ offsetX # Centred(viewW, props.img.width, initialScaleRef)
    /\ emitted[1].srcX # Num(0)

\* C12: the raster Confirm allocates is at least 1 pixel wide and 1 pixel
\* high in every reachable crop state.
C12_RasterAtLeastOnePixel ==
    \A i \in DOMAIN emitted : emitted[i].outW >= 1 /\ emitted[i].outH >= 1

ConfirmPressed == pressedConfirm'

EmitsOneAndEnds ==
    /\ session = "open"
    /\ session' = "confirmed"
    /\ Len(emitted') = Len(emitted) + 1
    /\ SubSeq(emitted', 1, Len(emitted)) = emitted

CancelEmitsNothing ==
    session = "open" /\ session' = "cancelled" => emitted' = emitted

AtMostOneOutput ==
    /\ Len(emitted') <= 1
    /\ emitted' # emitted => ConfirmPressed

\* C13 as stated: in every state of an open session, also before the image
\* has loaded, a press of Confirm emits exactly one raster and ends the
\* session; Cancel ends the session with no output; no session emits more
\* than one output.
C13_ConfirmAlwaysEmits ==
    [][/\ ConfirmPressed => EmitsOneAndEnds
       /\ CancelEmitsNothing
       /\ AtMostOneOutput]_vars

\* C13 amended: once the image has loaded, a press of Confirm emits exactly
\* one raster and ends the session; before that a press changes neither the
\* session nor its output; Cancel ends the session with no output at any
\* time; a session that has ended takes no further step and no session
\* emits more than one output.
C13_ConfirmAfterLoadEmitsOnce ==
    [][/\ ConfirmPressed /\ imgLoaded => EmitsOneAndEnds
       /\ ConfirmPressed /\ ~imgLoaded => UNCHANGED <<session, emitted>>
       /\ CancelEmitsNothing
       /\ AtMostOneOutput
       /\ session = "open"]_vars

\* Confirm has been pressed before the image loaded
C13_Witness ==
    /\ pressedConfirm
    /\ ~imgLoaded
    /\ session = "open"
    /\ emitted = <<>>

PanUnchanged == offsetX' = offsetX /\ offsetY' = offsetY

\* C14: pointer-down enters Dragging and records the pointer position and
\* the current offset; pointer-up returns to Idle; in Idle a pointer-move
\* leaves the offsets alone; in Dragging a pointer-move sets the offsets to
\* the recorded offset plus the raw pointer delta, unclamped.
C14_DragMachine ==
    [][/\ (~isDragging /\ isDragging') =>
              /\ dragStart' \in Pointers
              /\ offsetStart' = [x |-> offsetX, y |-> offsetY]
              /\ PanUnchanged
       /\ (isDragging /\ ~isDragging') => PanUnchanged
       /\ (~isDragging /\ imgLoaded) => PanUnchanged
       /\ (isDragging /\ isDragging') =>
              \/ PanUnchanged
              \/ \E e \in Pointers :
                    /\ offsetX' = Add(offsetStart.x, Num(e.x - dragStart.x))
                    /\ offsetY' = Add(offsetStart.y, Num(e.y - dragStart.y))
                    /\ UNCHANGED <<isDragging, dragStart, offsetStart>>
      ]_vars

\* a drag that has pulled the image's left edge inside the crop window
C14_Witness ==
    /\ isDragging
    /\ offsetStart.x = cropX
    /\ offsetX = Add(offsetStart.x, Num(30))
    /\ ~CoversCropWindow

(***************************************************************************)
(* Properties of the image row and of overlapping render passes            *)
(***************************************************************************)
Slots == {"left", "right"}

SlotKey(k) == IF k = "left" THEN "imageLeft" ELSE "imageRight"

\* both illustrations were requested and exactly one of them loaded
OneSurvivor ==
    /\ Drawn
    /\ \A k \in Slots : Requested(canvas.snap, k)
    /\ \E k \in Slots : canvas.images[k] = Null
    /\ \E k \in Slots : canvas.images[k] # Null

\* C15: when one of the two requested illustrations fails to load and the
\* other loads, the pass still draws, the failed slot is left out and the
\* surviving image is placed exactly as it would be had both loaded.
C15_SurvivorKeepsDualSlot ==
    OneSurvivor =>
        \A k \in Slots :
            canvas.row[k] =
                IF canvas.images[k] = Null THEN NoPlacement
                ELSE ImageRow(canvas.snap, AllLoaded(canvas.snap))[k]

\* the last drawPoster call to be issued has drawn, and an earlier one drew
\* after it
StaleSurface ==
    /\ passes = {}
    /\ canvas.pass < nextPass
    /\ canvas.snap # posterData

\* C16: nothing orders overlapping passes: every suspended pass, once its
\* loads have settled, draws its own record snapshot when it resumes, and no
\* guard discards it when a newer pass exists or has already drawn.
C16_NoStaleGuard ==
    [][\A pass \in passes :
          passes' = passes \ {pass} =>
              /\ canvas'.pass = pass.id
              /\ canvas'.snap = pass.snap]_vars

\* the older snapshot is what the surface shows at the end
C16_Witness == StaleSurface /\ canvas.pass = 1 /\ nextPass = 2

\* C17: the surface changes only in the step of a pass all of whose loads
\* have settled, and it is drawn from that pass's settled image set.
C17_DrawAfterJoin ==
    [][canvas' # canvas =>
          \E pass \in passes :
              /\ AllSettled(pass)
              /\ canvas'.pass = pass.id
              /\ canvas'.images = LoadedImages(pass)
              /\ passes' = passes \ {pass}]_vars

\* a pass that drew with a failed load in its image set, while another pass
\* was still waiting
C17_Witness ==
    /\ Drawn
    /\ passes # {}
    /\ \E k \in ImageKeys :
          Requested(canvas.snap, k) /\ canvas.images[k] = Null

DualDrawn ==
    /\ Drawn
    /\ canvas.row["left"].image # Null
    /\ canvas.row["right"].image # Null

boardRight == boardX + boardW

\* C18 as stated: the left slot's width is the image-row width minus the
\* circle's visible width minus the gap, with no other term.
C18_LeftSlotWidth ==
    DualDrawn =>
        canvas.row["left"].clip.w
            = Num(imgAreaW - (circleDiameter - circleOverflow) - gap)

\* C18 amended: the left slot's width is the image-row width minus the
\* circle's visible width minus the gap plus the panel's horizontal padding
\* (358 px), which leaves exactly the gap between the slot's right edge and
\* the circle's leftmost point.
C18_LeftSlotWidthWithPadding ==
    DualDrawn =>
        LET slot   == canvas.row["left"].clip
            circle == canvas.row["right"].clip
        IN  /\ slot.w = Num(imgAreaW - (circleDiameter - circleOverflow) - gap
                                + BOARD_PADDING_X)
            /\ slot.w = Num(Px(358))
            /\ Add(Add(slot.x, slot.w), Num(gap)) = Sub(circle.cx, circle.disc)

C18_Witness == DualDrawn /\ canvas.pass = 1

\* C19: the circle's centre x is panelRight - radius + overflow, so its
\* rightmost point is panelRight + overflow for every record.
C19_CircleRightExtent ==
    DualDrawn =>
        LET circle == canvas.row["right"].clip
        IN  /\ circle.disc = Num(circleRadius)
            /\ circle.cx = Num(boardRight - circleRadius + circleOverflow)
            /\ Sub(Add(circle.cx, circle.disc), Num(boardRight)) = Num(Px(80))

\* a dual layout under a title of two lines
C19_Witness ==
    /\ DualDrawn
    /\ canvas.pass = 2
    /\ Len(titleWrapped(canvas.snap).lines) = 2
    /\ canvas.row["right"].clip.cy
           # ImageRow(InitialPosterData, canvas.images)["right"].clip.cy

\* C20 as stated: the circle's centre lies outside the panel, right of its
\* right edge by the overflow constant.
C20_CentreOutsidePanel ==
    DualDrawn =>
        canvas.row["right"].clip.cx = Num(boardRight + circleOverflow)

\* C20 amended: the circle's centre lies inside the panel, radius - overflow
\* (90 px) left of the panel's right edge; only the circle's rim reaches
\* beyond the edge.
C20_CentreInsidePanel ==
    DualDrawn =>
        LET circle == canvas.row["right"].clip
        IN  /\ Less(Num(boardX), circle.cx)
            /\ Less(circle.cx, Num(boardRight))
            /\ Sub(Num(boardRight), circle.cx)
                   = Num(circleRadius - circleOverflow)
            /\ Sub(Num(boardRight), circle.cx) = Num(Px(90))
            /\ Less(Num(boardRight), Add(circle.cx, circle.disc))

\* a dual layout under a body of two lines
C20_Witness ==
    /\ DualDrawn
    /\ canvas.pass = 2
    /\ canvas.snap.content = TextLong

(***************************************************************************)
(* Fit modes, frame conditions and the panel's bottom edge                 *)
(***************************************************************************)
\* exactly one illustration was drawn
SingleDrawn ==
    /\ Drawn
    /\ \E k \in Slots : canvas.row[k].image # Null
    /\ \E k \in Slots : canvas.row[k].image = Null

rowCap == Mul(Num(imgAreaW), Frac(65, 100))

\* C22: in the single-image layout the image is scaled uniformly by
\* min(0.65 x rowWidth / imgW, rowHeight / imgH): its width is at most 65% of
\* the row width, its height at most the row height, one of the two bounds
\* is met exactly, and it is centred horizontally in the row.
C22_SingleContainFit ==
    SingleDrawn =>
        \A k \in Slots :
            canvas.row[k].image # Null =>
                LET p   == canvas.row[k].dest
                    img == ImageSize(canvas.row[k].image)
                    sc  == MinOf(Div(rowCap, Num(img.width)),
                                 Frac(imageMaxHeight, img.height))
                IN  /\ p.w = Mul(Num(img.width), sc)
                    /\ p.h = Mul(Num(img.height), sc)
                    /\ Leq(p.w, rowCap)
                    /\ Leq(p.h, Num(imageMaxHeight))
                    /\ p.w = rowCap \/ p.h = Num(imageMaxHeight)
                    /\ Add(p.x, Div(p.w, Num(2)))
                           = Add(Num(imgAreaX), Div(Num(imgAreaW), Num(2)))

\* the portrait photo alone: bounded by the row height, narrower than 65%
C22_Witness ==
    /\ SingleDrawn
    /\ canvas.snap.imageLeft = Null
    /\ canvas.row["right"].image # Null
    /\ canvas.row["right"].dest.h = Num(imageMaxHeight)
    /\ Less(canvas.row["right"].dest.w, rowCap)

\* C27: once the viewport and the crop window have been derived they stay
\* fixed, so the crop window stays centred (its margins 2 x cropX = viewW -
\* cropW and 2 x cropY = viewH - cropH do not change); a drag changes only
\* the offsets and a wheel or slider input changes only the scale.
C27_CropFrame ==
    [][imgLoaded =>
          /\ UNCHANGED <<viewW, viewH, cropW, cropH, initialScaleRef>>
          /\ viewW' - cropW' = viewW - cropW
          /\ viewH' - cropH' = viewH - cropH
          /\ <<offsetX, offsetY>>' # <<offsetX, offsetY>> =>
                 isDragging /\ scale' = scale
          /\ scale' # scale => zooms' = zooms + 1 /\ PanUnchanged]_vars

\* zoomed and panned, with the crop window where the size effect put it
C27_Witness ==
    /\ session = "open"
    /\ imgLoaded
    /\ scale # initialScaleRef
    /\ offsetX # Centred(viewW, props.img.width, initialScaleRef)
    /\ viewW = ViewportW(props.rect)
    /\ cropW = Round(CropWindow(props.rect, props.aspectRatio)[1])

\* C29: the cursor after the last comment line is at or above the panel's
\* bottom edge for every record and every set of loaded images.
C29_CursorInsidePanel ==
    Drawn =>
        AfterComment(canvas.snap, canvas.images)
            <= boardY + boardH(canvas.snap, canvas.images)

\* a body with an empty line and no image row
C29_Witness ==
    /\ Drawn
    /\ canvas.snap.content = TextBlank
    /\ ~hasLeft(canvas.images)
    /\ ~hasRight(canvas.images)
    /\ AfterComment(canvas.snap, canvas.images)
           < boardY + boardH(canvas.snap, canvas.images)

(***************************************************************************)
(* Header, footer and the QR square                                        *)
(***************************************************************************)
\* the placement p is the uniform max-scale of its image centred on slot
CoverFit(p, slot) ==
    LET img == ImageSize(p.image)
        sc  == MaxOf(Div(slot.w, Num(img.width)),
                     Div(slot.h, Num(img.height)))
    IN  /\ p.dest.w = Mul(Num(img.width), sc)
        /\ p.dest.h = Mul(Num(img.height), sc)
        /\ Add(p.dest.x, Div(p.dest.w, Num(2)))
               = Add(slot.x, Div(slot.w, Num(2)))
        /\ Add(p.dest.y, Div(p.dest.h, Num(2)))
               = Add(slot.y, Div(slot.h, Num(2)))

LeftSlot ==
    [x |-> Num(drawX), y |-> canvas.row["left"].clip.y, w |-> Num(leftW),
     h |-> Num(imageMaxHeight)]

CircleSlot ==
    LET circle == canvas.row["right"].clip
    IN  [x |-> Sub(circle.cx, circle.r), y |-> Sub(circle.cy, circle.r),
         w |-> Mul(Num(2), circle.r), h |-> Mul(Num(2), circle.r)]

QrSlot ==
    [x |-> Num(qrX), y |-> Num(footerY(canvas.snap, canvas.images)),
     w |-> Num(qrSize), h |-> Num(qrSize)]

QrDrawn == Drawn /\ canvas.qr.image # Null

\* C21: the left illustration of the dual layout, the circular manuscript
\* photo and the QR code are each drawn scaled uniformly by
\* max(slotW / imgW, slotH / imgH) and centred on their slot.
C21_FilledSlotsCoverFit ==
    /\ DualDrawn => /\ CoverFit(canvas.row["left"], LeftSlot)
                    /\ CoverFit(canvas.row["right"], CircleSlot)
    /\ QrDrawn => CoverFit(canvas.qr, QrSlot)

AllWhitespace(text) == \A i \in 1..Len(text) : text[i] \in Whitespace

\* C23: the header ends at the same constant height whatever the book
\* title, and its third line is the bold standalone label exactly when the
\* book title is empty after trimming, the book-title line otherwise.
C23_HeaderThirdLine ==
    Drawn =>
        LET third == canvas.header.lines[3]
        IN  /\ canvas.header.curY = Px(334)
            /\ third.y + third.font <= canvas.header.curY
            /\ IF AllWhitespace(canvas.snap.bookTitle)
               THEN /\ third.label = "none"
                    /\ third.text = StandaloneLabel
                    /\ third.bold
               ELSE /\ third.label = "bookTitle"
                    /\ third.text = canvas.snap.bookTitle
                    /\ ~third.bold

\* a book title of spaces only
C23_Witness ==
    /\ Drawn
    /\ canvas.snap.bookTitle = TextSpaces
    /\ canvas.header.lines[3].bold

codeSquareBottom == footerY(canvas.snap, canvas.images) + qrSize

\* C24 as stated: with n the number of lines of the contact text, line i
\* (0-based) is drawn with its bottom at
\* codeSquareBottom - (n - 1 - i) x lineHeight.
C24_LinesBottomAnchored ==
    Drawn =>
        LET lines == Split(canvas.snap.phone)
            n     == Len(lines)
        IN  \A i \in 1..n :
                lines[i] # <<>> =>
                    \E j \in 1..Len(canvas.contact) :
                        /\ canvas.contact[j].text = lines[i]
                        /\ canvas.contact[j].y
                               = codeSquareBottom - (n - i) * Px(32)

RECURSIVE NonEmptyOf(_)
NonEmptyOf(lines) ==
    IF lines = <<>> THEN <<>>
    ELSE IF Head(lines) = <<>> THEN NonEmptyOf(Tail(lines))
    ELSE <<Head(lines)>> \o NonEmptyOf(Tail(lines))

\* C24 amended: with n the number of non-empty lines of the contact text,
\* the i-th non-empty line (0-based) is drawn with its bottom at
\* codeSquareBottom - (n - 1 - i) x lineHeight, so the last non-empty line
\* is flush with the bottom of the code square; empty lines are not drawn
\* and move nothing.
C24_NonEmptyLinesBottomAnchored ==
    Drawn =>
        LET lines == NonEmptyOf(Split(canvas.snap.phone))
            n     == Len(lines)
        IN  /\ Len(canvas.contact) = n
            /\ \A i \in 1..n :
                  /\ canvas.contact[i].text = lines[i]
                  /\ canvas.contact[i].y
                         = codeSquareBottom - (n - i) * Px(32)
            /\ n > 0 => canvas.contact[n].y = codeSquareBottom

\* a contact text with an empty line between two drawn lines
C24_Witness ==
    /\ Drawn
    /\ canvas.snap.phone = TextGap
    /\ Len(canvas.contact) = 2
    /\ canvas.contact[1].y = codeSquareBottom - Px(32)

\* C25: every contact line is drawn inside the footer row: no line's anchor
\* is above the footer's top edge or below its bottom edge.
C25_ContactInsideFooter ==
    Drawn =>
        \A i \in 1..Len(canvas.contact) :
            /\ canvas.contact[i].y >= footerY(canvas.snap, canvas.images)
            /\ canvas.contact[i].y
                   <= footerY(canvas.snap, canvas.images) + footerHeight

(***************************************************************************)
(* History                                                                 *)
(***************************************************************************)
NewestFirst ==
    \A i, j \in 1..Len(history) : i < j => history[i].id > history[j].id

\* a step that adds an entry
Adds == nextId' = nextId + 1

\* C26: the history list never holds more than 20 entries and is ordered
\* newest first; an add puts the new entry first, keeps the others in their
\* order, and on a full list drops exactly the last (oldest) one.
C26_HistoryCapped ==
    /\ [](Len(history) <= 20 /\ NewestFirst)
    /\ [][Adds =>
            /\ history'[1].id = nextId'
            /\ Tail(history') = IF Len(history) = 20
                                 THEN SubSeq(history, 1, 19)
                                 ELSE history]_vars

\* a full list from which the first download has been evicted
C26_Witness ==
    /\ Len(history) = 20
    /\ nextId = 21
    /\ history[1].id = 21
    /\ history[20].id = 2

(***************************************************************************)
(* Uploads and the crop dialog                                             *)
(***************************************************************************)
\* the upload a crop output was cut from, Null for any other image
SourceOf(image) ==
    IF \E file \in Files : \E f \in ImageFields :
           image \in CropOutputs(file, f)
    THEN CHOOSE file \in Files :
             \E f \in ImageFields : image \in CropOutputs(file, f)
    ELSE Null

\* C28: an illustration upload changes the record only when its crop
\* dialog is confirmed, and then exactly the targeted field becomes the
\* cropped raster; choosing a file, reading it and cancelling the dialog
\* leave the record unchanged; the only other change is a cleared field.
C28_RecordChangesOnConfirm ==
    [][/\ posterData' # posterData =>
            \/ /\ DialogOpen
               /\ ~DialogOpen'
               /\ \E c \in CropOutputs(cropImage, cropTarget) :
                     posterData' = [posterData EXCEPT ![cropTarget] = c]
            \/ \E f \in ImageFields :
                  /\ ~DialogOpen
                  /\ posterData' = [posterData EXCEPT ![f] = Null]
                  /\ originalImages'[f] = Null
       /\ reading' # reading => posterData' = posterData
       /\ DialogOpen /\ ~DialogOpen' /\ nextPass' = nextPass =>
              posterData' = posterData]_vars

\* the left upload confirmed, the right upload cancelled
C28_Witness ==
    /\ ~DialogOpen
    /\ posterData.imageLeft \in CropOutputs(originalImages.imageLeft,
                                             "imageLeft")
    /\ originalImages.imageRight # Null
    /\ posterData.imageRight = "/pict01.png"

\* C30: whenever no upload is in progress, the stored original of each
\* illustration slot is null or the source the slot's poster image was
\* cropped from.
C30_OriginalMatchesImage ==
    reading = {} /\ ~DialogOpen =>
        \A f \in ImageFields :
            \/ originalImages[f] = Null
            \/ /\ posterData[f] # Null
               /\ SourceOf(posterData[f]) = originalImages[f]

====
